---- MODULE Spec2Model ----
(***************************************************************************)
(* Model of the Gemini text-to-speech front end.                           *)
(*                                                                         *)
(*   services/geminiService (src/unnamed/part_001): decode,                *)
(*     decodeAudioData, generateSpeech, playAudio, createWavBlob,          *)
(*     createWavBlobFromBase64                                             *)
(*   App.tsx: the React component (state, effects, handleSpeak,            *)
(*     handleDownload, handleReset)                                        *)
(*                                                                         *)
(* Strings the code manipulates are sequences of one-character strings;    *)
(* byte buffers are sequences of 0..255; null / undefined is <<>>.         *)
(* A call's result is a record [ok, val, err]: a returned value, or the    *)
(* message of the error thrown.                                            *)
(***************************************************************************)
EXTENDS Integers, Sequences, FiniteSets, TLC

VARIABLES
  \* App.tsx: React state and the ref
  text, selectedVoice, isLoading, error, notification, audioData,
  audioContextRef,
  \* the AudioContext: its state attribute, the buffer sources it is playing
  ctxState, playing,
  \* the environment: process.env.API_KEY, window.AudioContext
  apiKey, webAudio,
  \* who drives the service: the App, or a direct caller of playAudio
  scenario,
  \* the invocations of handleSpeak / playAudio that are suspended at an await
  calls,
  \* history: the (text, voice) audioData was synthesised for, how the last
  \* call of playAudio that ended did (the buffer it started, the error it threw)
  audioFor, played,
  \* the service's functions applied to drawn inputs
  op, arg, ret

vars == <<text, selectedVoice, isLoading, error, notification, audioData,
          audioContextRef, ctxState, playing, apiKey, webAudio,
          scenario, calls, audioFor, played, op, arg, ret>>

appVars == <<text, selectedVoice, isLoading, error, notification, audioData,
             audioContextRef, ctxState, playing, apiKey, webAudio,
             scenario, calls, audioFor, played>>

svcVars == <<op, arg, ret>>

-----------------------------------------------------------------------------
(* Bounds of the model *)

\* longest PCM byte buffer handed to decodeAudioData / createWavBlob
MaxBytes == 4
\* largest numChannels handed to decodeAudioData
MaxChannels == 2
\* longest base64 string handed to decode
MaxB64Len == 4
\* invocations of handleSpeak / playAudio suspended at the same time
MaxCalls == 2
\* buffer sources playing at the same time
MaxSources == 2
\* the voices of the list the user picks among (the first ones)
MaxVoices == 2

(* Program constants *)

\* channelData[i] = dataInt16[...] / 32768.0
Int16Scale == 32768
\* new ArrayBuffer(44)
WavHeaderLen == 44
\* const sampleRate = 24000
SampleRate == 24000
\* const bitsPerSample = 16
BitsPerSample == 16
\* const numChannels = 1 (createWavBlob), decodeAudioData(..., 24000, 1)
MonoChannels == 1

-----------------------------------------------------------------------------
(* Results *)

Null == <<>>

Ok(v) == [ok |-> TRUE, val |-> v, err |-> Null]

Err(m) == [ok |-> FALSE, val |-> Null, err |-> m]

-----------------------------------------------------------------------------
(* atob and decode: base64 -> bytes *)

B64Alphabet ==
  << "A","B","C","D","E","F","G","H","I","J","K","L","M","N","O","P",
     "Q","R","S","T","U","V","W","X","Y","Z","a","b","c","d","e","f",
     "g","h","i","j","k","l","m","n","o","p","q","r","s","t","u","v",
     "w","x","y","z","0","1","2","3","4","5","6","7","8","9","+","/" >>

IsB64Char(ch) == \E i \in 1..64 : B64Alphabet[i] = ch

B64Index(ch) == (CHOOSE i \in 1..64 : B64Alphabet[i] = ch) - 1

IsWhitespace(ch) == ch \in {" ", "\t", "\n", "\f", "\r"}

\* forgiving-base64: one or two trailing "=" are dropped when the length
\* is a multiple of 4
StripPadding(s) ==
  IF Len(s) > 0 /\ Len(s) % 4 = 0 /\ s[Len(s)] = "="
  THEN IF s[Len(s) - 1] = "="
       THEN SubSeq(s, 1, Len(s) - 2)
       ELSE SubSeq(s, 1, Len(s) - 1)
  ELSE s

RECURSIVE DecodeSextets(_)
DecodeSextets(v) ==
  IF Len(v) >= 4
  THEN LET n == v[1] * 262144 + v[2] * 4096 + v[3] * 64 + v[4]
       IN  << n \div 65536, (n \div 256) % 256, n % 256 >>
           \o DecodeSextets(SubSeq(v, 5, Len(v)))
  ELSE IF Len(v) = 3
  THEN LET n == (v[1] * 4096 + v[2] * 64 + v[3]) \div 4
       IN  << n \div 256, n % 256 >>
  ELSE IF Len(v) = 2
  THEN << (v[1] * 64 + v[2]) \div 16 >>
  ELSE << >>

\* window.atob: the binary string, as its char codes, or the DOMException
\* InvalidCharacterError
atob(base64) ==
  LET s1 == SelectSeq(base64, LAMBDA ch : ~IsWhitespace(ch))
      s2 == StripPadding(s1)
  IN  IF Len(s2) % 4 = 1 \/ \E i \in 1..Len(s2) : ~IsB64Char(s2[i])
      THEN Err(<<"The string to be decoded is not correctly encoded.">>)
      ELSE Ok(DecodeSextets([i \in 1..Len(s2) |-> B64Index(s2[i])]))

\* decode(base64): Uint8Array of the char codes of atob(base64)
decode(base64) ==
  LET binaryString == atob(base64)
  IN  IF ~binaryString.ok
      THEN binaryString
      ELSE Ok([i \in 1..Len(binaryString.val) |-> binaryString.val[i] % 256])

-----------------------------------------------------------------------------
(* decodeAudioData: bytes -> AudioBuffer *)

\* a reading that forgets the sign (a Uint16Array)
ToUint16(u) == u

\* two's complement reading of 16 bits
ToInt16(u) == IF u >= 32768 THEN u - 65536 ELSE u

\* new Int16Array(data.buffer): little-endian pairs (every platform a browser
\* runs on is little-endian)
Int16Array(data) ==
  [i \in 1..(Len(data) \div 2) |-> ToInt16(data[2 * i - 1] + 256 * data[2 * i])]

Abs(n) == IF n < 0 THEN 0 - n ELSE n

RECURSIVE GCD(_, _)
GCD(a, b) == IF b = 0 THEN a ELSE GCD(b, a % b)

\* the quotient n / d as the number it is: a fraction in lowest terms.
\* An int16 over 32768 is exact in a Float32Array.
Float32Div(n, d) ==
  LET g == GCD(Abs(n), d)
  IN  << n \div g, d \div g >>

\* the frames the loop "for (i = 0; i < frameCount; i++)" visits, where
\* frameCount = dataInt16.length / numChannels is not rounded
LoopFrames(n16, numChannels) == {i \in 0..n16 : i * numChannels < n16}

\* ctx.createBuffer(numChannels, frameCount, sampleRate): the length is
\* converted to an unsigned long (truncated); a length of 0 is refused
createBufferLength(n16, numChannels) == n16 \div numChannels

\* new Int16Array(buffer) throws a RangeError when the buffer's byte length is
\* odd; createBuffer throws a NotSupportedError when the length is 0
decodeAudioData(data, sampleRate, numChannels) ==
  IF Len(data) % 2 # 0
  THEN Err(<<"byte length of Int16Array should be a multiple of 2">>)
  ELSE
    LET dataInt16 == Int16Array(data)
        n16       == Len(dataInt16)
        length    == createBufferLength(n16, numChannels)
        written   == LoopFrames(n16, numChannels)
    IN  IF length = 0
        THEN Err(<<"createBuffer: the number of frames provided (0) is not supported">>)
        ELSE Ok([ numberOfChannels |-> numChannels,
                  length           |-> length,
                  sampleRate       |-> sampleRate,
                  channelData      |->
                    [channel \in 1..numChannels |->
                      [i \in 1..length |->
                        IF (i - 1) \in written
                        THEN Float32Div(dataInt16[(i - 1) * numChannels + channel], Int16Scale)
                        ELSE << 0, 1 >>]] ])

-----------------------------------------------------------------------------
(* createWavBlob: bytes -> WAV file *)

CharCode(ch) ==
  CASE ch = "R" -> 82  [] ch = "I" -> 73  [] ch = "F" -> 70
    [] ch = "W" -> 87  [] ch = "A" -> 65  [] ch = "V" -> 86  [] ch = "E" -> 69
    [] ch = "f" -> 102 [] ch = "m" -> 109 [] ch = "t" -> 116 [] ch = " " -> 32
    [] ch = "d" -> 100 [] ch = "a" -> 97

\* view.setUint8(offset + i, string.charCodeAt(i))
writeString(view, offset, string) ==
  [k \in 1..Len(view) |->
     IF k - 1 >= offset /\ k - 1 < offset + Len(string)
     THEN CharCode(string[k - offset]) % 256
     ELSE view[k]]

\* view.setUint32(offset, value) without the little-endian flag
setUint32BigEndian(view, offset, value) ==
  [k \in 1..Len(view) |->
     IF k - 1 = offset          THEN (value \div 16777216) % 256
     ELSE IF k - 1 = offset + 1 THEN (value \div 65536) % 256
     ELSE IF k - 1 = offset + 2 THEN (value \div 256) % 256
     ELSE IF k - 1 = offset + 3 THEN value % 256
     ELSE view[k]]

\* view.setUint32(offset, value, true): the four low bytes of value, lowest
\* first (byte k of value modulo 2^32 is (value \div 256^k) % 256)
setUint32(view, offset, value) ==
  [k \in 1..Len(view) |->
     IF k - 1 = offset          THEN value % 256
     ELSE IF k - 1 = offset + 1 THEN (value \div 256) % 256
     ELSE IF k - 1 = offset + 2 THEN (value \div 65536) % 256
     ELSE IF k - 1 = offset + 3 THEN (value \div 16777216) % 256
     ELSE view[k]]

\* view.setUint16(offset, value, true)
setUint16(view, offset, value) ==
  LET v == value % 65536
  IN  [k \in 1..Len(view) |->
         IF k - 1 = offset          THEN v % 256
         ELSE IF k - 1 = offset + 1 THEN (v \div 256) % 256
         ELSE view[k]]

WavHeader(dataSize) ==
  LET v0  == [k \in 1..WavHeaderLen |-> 0]
      v1  == writeString(v0, 0, <<"R", "I", "F", "F">>)
      v2  == setUint32(v1, 4, 36 + dataSize)
      v3  == writeString(v2, 8, <<"W", "A", "V", "E">>)
      v4  == writeString(v3, 12, <<"f", "m", "t", " ">>)
      v5  == setUint32(v4, 16, 16)
      v6  == setUint16(v5, 20, 1)
      v7  == setUint16(v6, 22, MonoChannels)
      v8  == setUint32(v7, 24, SampleRate)
      v9  == setUint32(v8, 28, SampleRate * MonoChannels * (BitsPerSample \div 8))
      v10 == setUint16(v9, 32, MonoChannels * (BitsPerSample \div 8))
      v11 == setUint16(v10, 34, BitsPerSample)
      v12 == writeString(v11, 36, <<"d", "a", "t", "a">>)
  IN  setUint32(v12, 40, dataSize)

\* the Blob's parts in the other order
createWavBlobDataFirst(pcmData) ==
  [type |-> "audio/wav", bytes |-> pcmData \o WavHeader(Len(pcmData))]

\* new Blob([view, pcmData], { type: 'audio/wav' })
createWavBlob(pcmData) ==
  [type |-> "audio/wav", bytes |-> WavHeader(Len(pcmData)) \o pcmData]

createWavBlobFromBase64(base64Audio) ==
  LET pcmData == decode(base64Audio)
  IN  IF pcmData.ok THEN Ok(createWavBlob(pcmData.val)) ELSE pcmData

-----------------------------------------------------------------------------
(* generateSpeech: what it makes of the API's reply *)

\* an optional field is <<>> (undefined) or <<value>>; a string is truthy when
\* it is present and not empty. The payload is a sequence of characters, the
\* other strings are opaque.
TruthyData(opt) == opt # Null /\ opt[1] # Null

Truthy(opt) == opt # Null /\ opt[1] # ""

\* lines 35-37: thrown before the request is sent
generateSpeechCall(key) ==
  IF ~key THEN Err(<<"API_KEY environment variable not set">>) ELSE Ok(Null)

\* lines 41-67: the request settles
generateSpeechReply(reply) ==
  IF reply.status = "rejected"
  THEN Err(<<"fetch failed">>)
  ELSE IF TruthyData(reply.inlineData)
  THEN Ok(reply.inlineData[1])
  ELSE IF Truthy(reply.text)
  THEN Err(<<"API returned text instead of audio: ", reply.text[1]>>)
  ELSE IF Truthy(reply.blockReason)
  THEN Err(<<"Request was blocked: ", reply.blockReason[1]>>)
  ELSE Err(<<"No audio data received from API. The response was empty or malformed.">>)

generateSpeech(key, reply) ==
  IF ~generateSpeechCall(key).ok
  THEN generateSpeechCall(key)
  ELSE generateSpeechReply(reply)

-----------------------------------------------------------------------------
(* The inputs the functions are applied to *)

SampleBytes == {0, 1, 127, 128, 255}

ByteBufs == UNION {[1..n -> SampleBytes] : n \in 0..MaxBytes}

\* longer buffers, for the header's size fields to need more than one byte
LongPcm(n) == [i \in 1..n |-> (i * 37) % 256]

LongLens == {10, 219, 220, 300, 1000}

B64Chars == {"A", "Q", "/", "=", "!", " "}

B64Strings == UNION {[1..n -> B64Chars] : n \in 0..MaxB64Len}

\* payloads: the bytes 00 80 (one sample), three bytes, not base64
GoodAudio == <<"A", "I", "A", "=">>

OddAudio == <<"A", "I", "D", "/">>

BadAudio == <<"!">>

Replies ==
  [ status      : {"fulfilled"},
    inlineData  : {Null, <<Null>>, <<GoodAudio>>, <<OddAudio>>, <<BadAudio>>},
    text        : {Null, <<"">>, <<"I cannot say that.">>},
    blockReason : {Null, <<"SAFETY">>} ]
  \cup
  [ status : {"rejected"}, inlineData : {Null}, text : {Null}, blockReason : {Null} ]

\* the replies the App is given: those with at most one of the three fields
AppReplies ==
  {r \in Replies :
     Cardinality({f \in {"inlineData", "text", "blockReason"} : r[f] # Null}) <= 1}

-----------------------------------------------------------------------------
(* The service's functions, each applied once to an input drawn from the    *)
(* sets above                                                               *)

IdleCall ==
  [pc |-> "idle", caller |-> "", text |-> Null, voice |-> "", base64Audio |-> Null]

NotPlayed == [kind |-> "", err |-> Null, buffer |-> Null]

\* the App is not mounted
AppIdle ==
  /\ text = Null /\ selectedVoice = "" /\ isLoading = FALSE
  /\ error = Null /\ notification = Null /\ audioData = Null
  /\ audioContextRef = "null" /\ ctxState = "none"
  /\ playing = 0
  /\ apiKey = TRUE /\ webAudio = TRUE
  /\ scenario = "service"
  /\ calls = [c \in 1..MaxCalls |-> IdleCall]
  /\ audioFor = Null /\ played = NotPlayed

SvcInit ==
  /\ AppIdle
  /\ op = "none" /\ arg = Null /\ ret = Null

CallDecodeAudioData ==
  \E data \in ByteBufs, numChannels \in 1..MaxChannels :
    /\ op = "none"
    /\ op' = "decodeAudioData"
    /\ arg' = [data |-> data, numChannels |-> numChannels]
    /\ ret' = decodeAudioData(data, SampleRate, numChannels)
    /\ UNCHANGED appVars

CallCreateWavBlob ==
  \E pcmData \in ByteBufs \cup {LongPcm(n) : n \in LongLens} :
    /\ op = "none"
    /\ op' = "createWavBlob"
    /\ arg' = [pcmData |-> pcmData]
    /\ ret' = Ok(createWavBlob(pcmData))
    /\ UNCHANGED appVars

CallCreateWavBlobFromBase64 ==
  \E base64Audio \in B64Strings :
    /\ op = "none"
    /\ op' = "createWavBlobFromBase64"
    /\ arg' = [base64Audio |-> base64Audio]
    /\ ret' = createWavBlobFromBase64(base64Audio)
    /\ UNCHANGED appVars

CallGenerateSpeech ==
  \E key \in BOOLEAN, reply \in Replies :
    /\ op = "none"
    /\ op' = "generateSpeech"
    /\ arg' = [apiKey |-> key, reply |-> reply]
    /\ ret' = generateSpeech(key, reply)
    /\ UNCHANGED appVars

SvcNext ==
  \/ CallDecodeAudioData
  \/ CallCreateWavBlob
  \/ CallCreateWavBlobFromBase64
  \/ CallGenerateSpeech

SpecService == SvcInit /\ [][SvcNext]_vars

-----------------------------------------------------------------------------
(* playAudio *)

Throw(m) == [kind |-> "throw", err |-> m, buffer |-> Null]

\* a test of the state that never finds it suspended
IsSuspendedNever(state) == FALSE

\* audioContext.state === 'suspended' (playAudio, and handleSpeak before it)
IsSuspended(state) == state = "suspended"

\* lines 80-87, after the device is known to run: decode, decodeAudioData,
\* createBufferSource, start
playAudioDecodeAndStart(base64Audio) ==
  LET decodedBytes == decode(base64Audio)
  IN  IF ~decodedBytes.ok
      THEN Throw(decodedBytes.err)
      ELSE LET audioBuffer == decodeAudioData(decodedBytes.val, SampleRate, MonoChannels)
           IN  IF ~audioBuffer.ok
               THEN Throw(audioBuffer.err)
               ELSE [kind |-> "started", err |-> Null, buffer |-> audioBuffer.val]

\* a playAudio that looks at its audioContext only when it needs it
playAudioLateCheck(base64Audio, ref, state) ==
  IF IsSuspended(state)
  THEN [kind |-> "await", err |-> Null, buffer |-> Null]
  ELSE IF ~decode(base64Audio).ok
  THEN Throw(decode(base64Audio).err)
  ELSE IF ref = "null"
  THEN Throw(<<"AudioContext not initialized.">>)
  ELSE playAudioDecodeAndStart(base64Audio)

\* playAudio up to its first await: it throws, it awaits resume(), or it has
\* started a buffer source
playAudio(base64Audio, ref, state) ==
  IF ref = "null"
  THEN Throw(<<"AudioContext not initialized.">>)
  ELSE IF IsSuspended(state)
  THEN [kind |-> "await", err |-> Null, buffer |-> Null]
  ELSE playAudioDecodeAndStart(base64Audio)

-----------------------------------------------------------------------------
(* App.tsx *)

VOICES ==
  << [id |-> "Kore",   name |-> "Kore (Female)"],
     [id |-> "Puck",   name |-> "Puck (Male)"],
     [id |-> "Charon", name |-> "Charon (Male)"],
     [id |-> "Fenrir", name |-> "Fenrir (Male)"],
     [id |-> "Zephyr", name |-> "Zephyr (Female)"] >>

\* the options the user picks among
VoiceIds == {VOICES[i].id : i \in 1..MaxVoices}

\* stands for 'Hello! I am a friendly assistant powered by Gemini. ...'
DEFAULT_TEXT == <<"H", "i">>

\* what the textarea may hold: a blank text, the default
Texts == { <<" ">>, DEFAULT_TEXT }

RECURSIVE TrimStart(_)
TrimStart(str) ==
  IF str # <<>> /\ IsWhitespace(str[1]) THEN TrimStart(Tail(str)) ELSE str

RECURSIVE TrimEnd(_)
TrimEnd(str) ==
  IF str # <<>> /\ IsWhitespace(str[Len(str)])
  THEN TrimEnd(SubSeq(str, 1, Len(str) - 1))
  ELSE str

\* String.prototype.trim
Trim(str) == TrimEnd(TrimStart(str))

Calls == 1..MaxCalls

FreeCalls == {c \in Calls : calls[c].pc = "idle"}

\* the invocation a new call gets
NewCall == CHOOSE c \in FreeCalls : \A d \in FreeCalls : c <= d

env == <<apiKey, webAudio, scenario, op, arg, ret>>

AppInit ==
  /\ scenario = "app"
  /\ text \in Texts
  /\ selectedVoice \in VoiceIds
  /\ isLoading = FALSE /\ error = Null /\ notification = Null /\ audioData = Null
  /\ audioContextRef = "null" /\ ctxState = "none"
  /\ playing = 0
  /\ apiKey \in BOOLEAN /\ webAudio \in BOOLEAN
  /\ calls = [c \in Calls |-> IdleCall]
  /\ audioFor = Null /\ played = NotPlayed
  /\ op = "none" /\ arg = Null /\ ret = Null

\* playAudio called by someone else than the App, with whatever audioContext
\* they hold
DirectInit ==
  /\ scenario = "direct"
  /\ text = Null /\ selectedVoice = ""
  /\ isLoading = FALSE /\ error = Null /\ notification = Null /\ audioData = Null
  /\ \/ audioContextRef = "null" /\ ctxState = "none"
     \/ audioContextRef = "ctx" /\ ctxState \in {"suspended", "running"}
  /\ playing = 0
  /\ apiKey = TRUE /\ webAudio = TRUE
  /\ calls = [c \in Calls |-> IdleCall]
  /\ audioFor = Null /\ played = NotPlayed
  /\ op = "none" /\ arg = Null /\ ret = Null

Init == AppInit \/ DirectInit

\* what a call of playAudio that ended with r does to the device
PlayAudioEnds(r) ==
  /\ r.kind = "started" => playing < MaxSources
  /\ playing' = IF r.kind = "started" THEN playing + 1 ELSE playing
  /\ played' = IF r.kind = "await" THEN played ELSE r

\* handleSpeak, lines 69-74: await playAudio; catch: setError(err.message);
\* finally: setIsLoading(false)
HandleSpeakAfterPlay(c, base64Audio, r) ==
  /\ calls' = [calls EXCEPT ![c] =
                 IF r.kind = "await"
                 THEN [@ EXCEPT !.pc = "playResume", !.base64Audio = base64Audio]
                 ELSE IdleCall]
  /\ isLoading' = IF r.kind = "await" THEN isLoading ELSE FALSE
  /\ error' = IF r.kind = "throw" THEN r.err ELSE error

\* handleSpeak, lines 61-67: the setters, then generateSpeech up to its await.
\* t and v are the text and the voice of the render the handler belongs to.
HandleSpeakProceed(c, t, v) ==
  /\ audioData' = Null /\ audioFor' = Null
  /\ notification' = Null
  /\ IF generateSpeechCall(apiKey).ok
     THEN /\ isLoading' = TRUE
          /\ error' = Null
          /\ calls' = [calls EXCEPT ![c] =
                         [pc |-> "generate", caller |-> "handleSpeak",
                          text |-> t, voice |-> v, base64Audio |-> Null]]
     ELSE /\ isLoading' = FALSE
          /\ error' = generateSpeechCall(apiKey).err
          /\ calls' = [calls EXCEPT ![c] = IdleCall]

\* a click on Speak: handleSpeak up to its first await
HandleSpeak ==
  /\ scenario = "app"
  /\ ~(isLoading \/ Trim(text) = <<>>)          \* the button is not disabled
  /\ ~(Trim(text) = <<>> \/ isLoading)          \* line 47
  /\ FreeCalls # {}
  /\ IF audioContextRef = "null" /\ ~webAudio
     THEN /\ error' = <<"Your browser does not support the Web Audio API.">>
          /\ UNCHANGED <<text, selectedVoice, isLoading, notification, audioData,
                         audioContextRef, ctxState, playing, calls,
                         audioFor, played>>
     ELSE /\ audioContextRef' = "ctx"
          /\ IF audioContextRef = "null"
             THEN ctxState' \in {"suspended", "running"}
             ELSE ctxState' = ctxState
          /\ IF IsSuspended(ctxState')
             THEN /\ calls' = [calls EXCEPT ![NewCall] =
                                 [pc |-> "resume", caller |-> "handleSpeak",
                                  text |-> text, voice |-> selectedVoice,
                                  base64Audio |-> Null]]
                  /\ UNCHANGED <<isLoading, error, notification, audioData, audioFor>>
             ELSE HandleSpeakProceed(NewCall, text, selectedVoice)
          /\ UNCHANGED <<text, selectedVoice, playing, played>>
  /\ UNCHANGED env

\* line 58: audioContextRef.current.resume() settles
HandleSpeakResumed(c) ==
  /\ calls[c].pc = "resume"
  /\ ctxState' = "running"
  /\ HandleSpeakProceed(c, calls[c].text, calls[c].voice)
  /\ UNCHANGED <<text, selectedVoice, audioContextRef, playing, played>>
  /\ UNCHANGED env

\* line 67: generateSpeech settles; then setAudioData and playAudio up to its
\* first await
GenerateSpeechSettled(c) ==
  /\ calls[c].pc = "generate"
  /\ \E reply \in AppReplies :
       LET base64Audio == generateSpeechReply(reply)
       IN  IF ~base64Audio.ok
           THEN /\ error' = base64Audio.err
                /\ isLoading' = FALSE
                /\ calls' = [calls EXCEPT ![c] = IdleCall]
                /\ UNCHANGED <<audioData, audioFor, playing, played>>
           ELSE /\ audioData' = base64Audio.val
                /\ audioFor' = <<calls[c].text, calls[c].voice>>
                /\ LET r == playAudio(base64Audio.val, audioContextRef, ctxState)
                   IN  /\ PlayAudioEnds(r)
                       /\ HandleSpeakAfterPlay(c, base64Audio.val, r)
  /\ UNCHANGED <<text, selectedVoice, notification, audioContextRef, ctxState>>
  /\ UNCHANGED env

\* playAudio, line 77: audioContext.resume() settles; then lines 80-87
PlayAudioResumed(c) ==
  /\ calls[c].pc = "playResume"
  /\ ctxState' = "running"
  /\ LET r == playAudioDecodeAndStart(calls[c].base64Audio)
     IN  /\ PlayAudioEnds(r)
         /\ IF calls[c].caller = "handleSpeak"
            THEN HandleSpeakAfterPlay(c, calls[c].base64Audio, r)
            ELSE /\ calls' = [calls EXCEPT ![c] = IdleCall]
                 /\ UNCHANGED <<isLoading, error>>
  /\ UNCHANGED <<text, selectedVoice, notification, audioData, audioContextRef,
                 audioFor>>
  /\ UNCHANGED env

\* playAudio called directly
DirectPlayAudio ==
  /\ scenario = "direct"
  /\ FreeCalls # {}
  /\ \E base64Audio \in {GoodAudio, OddAudio, BadAudio} :
       LET r == playAudio(base64Audio, audioContextRef, ctxState)
       IN  /\ PlayAudioEnds(r)
           /\ calls' = [calls EXCEPT ![NewCall] =
                          IF r.kind = "await"
                          THEN [pc |-> "playResume", caller |-> "direct",
                                text |-> Null, voice |-> "",
                                base64Audio |-> base64Audio]
                          ELSE IdleCall]
  /\ UNCHANGED <<text, selectedVoice, isLoading, error, notification, audioData,
                 audioContextRef, ctxState, audioFor>>
  /\ UNCHANGED env

\* a buffer source has played its buffer to the end
PlaybackEnded ==
  /\ playing > 0
  /\ playing' = playing - 1
  /\ UNCHANGED <<text, selectedVoice, isLoading, error, notification, audioData,
                 audioContextRef, ctxState, calls, audioFor, played>>
  /\ UNCHANGED env

\* the textarea's onChange, and the effect on [text]
SetText(t) ==
  /\ scenario = "app"
  /\ ~isLoading                                  \* the textarea is not disabled
  /\ t # text
  /\ text' = t
  /\ audioData' = Null /\ audioFor' = Null
  /\ UNCHANGED <<selectedVoice, isLoading, error, notification, audioContextRef,
                 ctxState, playing, calls, played>>
  /\ UNCHANGED env

\* the select's onChange, and the effect on [selectedVoice]
SetSelectedVoice(v) ==
  /\ scenario = "app"
  /\ ~isLoading                                  \* the select is not disabled
  /\ v # selectedVoice
  /\ selectedVoice' = v
  /\ audioData' = Null /\ audioFor' = Null
  /\ UNCHANGED <<text, isLoading, error, notification, audioContextRef,
                 ctxState, playing, calls, played>>
  /\ UNCHANGED env

\* a click on Download
HandleDownload ==
  /\ scenario = "app"
  /\ ~(isLoading \/ audioData = Null)            \* the button is not disabled
  /\ audioData # Null                            \* line 78
  /\ LET wavBlob == createWavBlobFromBase64(audioData)
     IN  IF wavBlob.ok
         THEN /\ notification' = <<"Download started.">>
              /\ UNCHANGED error
         ELSE /\ error' = <<"Failed to prepare audio for download.">>
              /\ UNCHANGED notification
  /\ UNCHANGED <<text, selectedVoice, isLoading, audioData, audioContextRef,
                 ctxState, playing, calls, audioFor, played>>
  /\ UNCHANGED env

\* a click on Reset to Default, and the effects on [text], [selectedVoice]
HandleReset ==
  /\ scenario = "app"
  /\ ~isLoading                                  \* the button is not disabled
  /\ text' = DEFAULT_TEXT
  /\ selectedVoice' = VOICES[1].id
  /\ error' = Null
  /\ audioData' = Null /\ audioFor' = Null
  /\ notification' = <<"Settings have been reset to default.">>
  /\ UNCHANGED <<isLoading, audioContextRef, ctxState, playing, calls, played>>
  /\ UNCHANGED env

\* the effect on [notification]: setTimeout(() => setNotification(null), 3000)
NotificationTimeout ==
  /\ notification # Null
  /\ notification' = Null
  /\ UNCHANGED <<text, selectedVoice, isLoading, error, audioData, audioContextRef,
                 ctxState, playing, calls, audioFor, played>>
  /\ UNCHANGED env

Next ==
  \/ HandleSpeak
  \/ \E c \in Calls : HandleSpeakResumed(c)
  \/ \E c \in Calls : GenerateSpeechSettled(c)
  \/ \E c \in Calls : PlayAudioResumed(c)
  \/ DirectPlayAudio
  \/ PlaybackEnded
  \/ \E t \in Texts : SetText(t)
  \/ \E v \in VoiceIds : SetSelectedVoice(v)
  \/ HandleDownload
  \/ HandleReset
  \/ NotificationTimeout

Spec == Init /\ [][Next]_vars

-----------------------------------------------------------------------------
(* Properties of the service's functions (SpecService) *)

\* the k-th (from 0) little-endian signed 16-bit integer of a byte buffer
LittleEndianInt16(bytes, k) ==
  LET u == bytes[2 * k + 1] + 256 * bytes[2 * k + 2]
  IN  IF u >= 32768 THEN u - 65536 ELSE u

\* the little-endian unsigned 32-bit integer at an offset of a byte buffer
ReadUint32LE(bytes, offset) ==
  bytes[offset + 1] + 256 * bytes[offset + 2]
  + 65536 * bytes[offset + 3] + 16777216 * bytes[offset + 4]

\* the frames of the leading bytes: frame i of channel c is sample
\* i * numChannels + c, over 32768
FramesOfLeadingBytes(buffer, data, numChannels, frames) ==
  /\ buffer.numberOfChannels = numChannels
  /\ buffer.length = frames
  /\ \A c \in 1..numChannels :
       /\ Len(buffer.channelData[c]) = frames
       /\ \A i \in 1..frames :
            LET s == buffer.channelData[c][i]
                n == LittleEndianInt16(data, (i - 1) * numChannels + (c - 1))
            IN  s[1] * Int16Scale = n * s[2]

\* C1 (as claimed): a byte buffer whose length is not a multiple of
\* 2 * numChannels is decoded without an error into exactly
\* floor(length / (2 * numChannels)) frames taken from the leading bytes.
C1_TruncatesWithoutError ==
  (op = "decodeAudioData" /\ Len(arg.data) % (2 * arg.numChannels) # 0)
    => /\ ret.ok
       /\ FramesOfLeadingBytes(ret.val, arg.data, arg.numChannels,
                               Len(arg.data) \div (2 * arg.numChannels))

\* C2 (as claimed): a reply with no inline audio data and a populated block
\* reason makes generateSpeech fail with the blocked error that carries the
\* reason, whatever the reply's other fields hold.
C2_BlockedReplyGivesBlockedError ==
  (/\ op = "generateSpeech"
   /\ arg.apiKey
   /\ arg.reply.status = "fulfilled"
   /\ ~TruthyData(arg.reply.inlineData)
   /\ Truthy(arg.reply.blockReason))
    => /\ ~ret.ok
       /\ ret.err = <<"Request was blocked: ", arg.reply.blockReason[1]>>

\* C3: the header createWavBlob writes declares a RIFF chunk size (bytes
\* 4-7, little-endian) of 36 + dataSize and a data chunk size (bytes 40-43)
\* of dataSize, and dataSize bytes follow the header.
C3_HeaderSizesMatchData ==
  op = "createWavBlob"
    => LET dataSize == Len(arg.pcmData)
           bytes    == ret.val.bytes
       IN  /\ ReadUint32LE(bytes, 4) = 36 + dataSize
           /\ ReadUint32LE(bytes, 40) = dataSize
           /\ Len(bytes) - WavHeaderLen = dataSize

C3_Witness ==
  /\ op = "createWavBlob"
  /\ Len(arg.pcmData) = 1000
  /\ SubSeq(ret.val.bytes, 5, 8) = <<12, 4, 0, 0>>
  /\ SubSeq(ret.val.bytes, 41, 44) = <<232, 3, 0, 0>>

\* the PCM bytes a WAV conversion was given: the buffer itself, or the bytes
\* of the base64 payload
WavInput ==
  IF op = "createWavBlob" THEN arg.pcmData ELSE decode(arg.base64Audio).val

\* C4: the WAV output for a PCM buffer b of length N has 44 + N bytes, starts
\* with "RIFF" at bytes 0-3 and "WAVE" at bytes 8-11, and without its first
\* 44 bytes is b.
C4_WavRoundTrip ==
  ((op = "createWavBlob" \/ op = "createWavBlobFromBase64") /\ ret.ok)
    => LET b     == WavInput
           bytes == ret.val.bytes
       IN  /\ Len(bytes) = 44 + Len(b)
           /\ SubSeq(bytes, 1, 4) = <<82, 73, 70, 70>>
           /\ SubSeq(bytes, 9, 12) = <<87, 65, 86, 69>>
           /\ SubSeq(bytes, 45, Len(bytes)) = b

C4_Witness ==
  /\ op = "createWavBlobFromBase64"
  /\ arg.base64Audio = <<"A", "Q", "/", "/">>
  /\ ret.ok
  /\ SubSeq(ret.val.bytes, 45, 47) = <<1, 15, 255>>

\* what C5 says of the decoding of a buffer
C5_Decoded ==
  LET data        == arg.data
      numChannels == arg.numChannels
      frameCount  == (Len(data) \div 2) \div numChannels
  IN  /\ ret.ok
      /\ FramesOfLeadingBytes(ret.val, data, numChannels, frameCount)
      /\ \A c \in 1..numChannels : \A i \in 1..frameCount :
           LET s == ret.val.channelData[c][i]
           IN  /\ s[2] > 0 /\ Int16Scale % s[2] = 0
               /\ s[1] * (Int16Scale \div s[2]) \in -32768..32767
               /\ 0 - s[2] <= s[1] /\ s[1] < s[2]
      /\ (data = <<0, 128>> /\ numChannels = 1)
           => ret.val.channelData[1][1] = <<-1, 1>>

-----------------------------------------------------------------------------
(* Properties of the App and of playAudio (Spec) *)

NotInitialized == Throw(<<"AudioContext not initialized.">>)

\* handleSpeak never finds the device suspended in playAudio: it has awaited
\* resume() itself (lines 57-59) before the request is sent
AppNeverAwaitsInPlayAudio ==
  scenario = "app" => \A c \in Calls : calls[c].pc # "playResume"

\* C6: playAudio called with a null AudioContext throws "AudioContext not
\* initialized." before anything else happens: no resume is awaited, nothing
\* is decoded, no buffer is created, no source is started; and when playAudio
\* throws in handleSpeak, the error's message becomes the App's error.
C6_NullContextFailsFirst ==
  [][ /\ (scenario = "direct" /\ audioContextRef = "null")
         => /\ played' \in {NotPlayed, NotInitialized}
            /\ playing' = 0
            /\ ctxState' = "none"
            /\ \A c \in Calls : calls'[c].pc = "idle"
      /\ (scenario = "app" /\ played' # played /\ played'.kind = "throw")
         => /\ error' = played'.err
            /\ error' # Null
    ]_vars

C6_Witness ==
  /\ scenario = "direct"
  /\ audioContextRef = "null"
  /\ played = NotInitialized

\* C7: on the Speak path a buffer source is started only by the invocation
\* whose synthesis request has settled, with the buffer decoded from the
\* payload received, and with the device running: a resume of a suspended
\* device has settled before.
C7_StartAfterResultResumeDecode ==
  [][ (scenario = "app" /\ playing' = playing + 1)
        => \E c \in Calls :
             /\ calls[c].pc \in {"generate", "playResume"}
             /\ calls'[c].pc = "idle"
             /\ ctxState' = "running"
             /\ LET base64Audio == IF calls[c].pc = "generate"
                                   THEN audioData'
                                   ELSE calls[c].base64Audio
                IN  /\ base64Audio # Null
                    /\ decode(base64Audio).ok
                    /\ played'.kind = "started"
                    /\ played'.buffer =
                         decodeAudioData(decode(base64Audio).val, SampleRate, MonoChannels).val
    ]_vars

\* a source plays on a device that was created suspended: another click still
\* awaits the resume
C7_Witness ==
  /\ scenario = "app"
  /\ playing = 1
  /\ played.kind = "started"
  /\ ctxState = "running"
  /\ \E c \in Calls : calls[c].pc = "resume"

\* C8 (as claimed): at most one buffer source is playing on the device at
\* any time.
C8_OnePlaybackAtATime ==
  scenario = "app" => playing <= 1

\* C9 (as claimed): at most one synthesis request is in flight at any time.
C9_OneRequestInFlight ==
  scenario = "app" => Cardinality({c \in Calls : calls[c].pc = "generate"}) <= 1

\* C10 (as claimed): whenever audioData is not null it is the synthesis
\* result for the text displayed and the voice selected.
C10_AudioIsForCurrentInput ==
  (scenario = "app" /\ audioData # Null) => audioFor = <<text, selectedVoice>>

====
